---- MODULE Spec2Model ----
(***************************************************************************)
(* Model of the template-based EventBus of src/cpp_tutorial_ad5c0a.cpp:    *)
(* the listener table (std::map<void*, std::vector<std::function>>), the   *)
(* per-type static key, subscribe<TEvent> and emit<TEvent>.  emit is       *)
(* modelled one listener invocation at a time, because each invocation is  *)
(* a call into user code.                                                  *)
(***************************************************************************)
EXTENDS Integers, Sequences, FiniteSets, TLC

\* ---- bounds of the exploration ----
MaxSubs == 3
MaxEmits == 2

\* ---- inputs ----
EventType == {"PlayerMovedEvent", "EnemySpawnedEvent"}
Bus == {"gameEventBus", "otherBus"}
Payload == {1, 2}
Garbage == 0
\* user callbacks handed to subscribe: two that return, one that throws
Handler == {"h1", "h2", "hThrow"}
HandlerThrows(h) == h = "hThrow"
\* addresses the build may give to the static 'key' objects
KeyAddr == {101, 102}

VARIABLES
    buses,        \* the EventBus objects the program constructed
    keyStorage,   \* address of 'static char key' of each getTypeKey<TEvent>
    listeners,    \* per bus: the std::map from key to vector of thunks
    events,       \* event objects of the callers, indexed by address
    stack,        \* active emit calls (frames), innermost last
    calls,        \* history: every emit call with its arguments and outcome
    invocations,  \* history: every call of a user handler, in time order
    subscribed,   \* history: handlers passed to subscribe, per bus and type
    keyLog,       \* history: results of getTypeKey calls
    threads,      \* per thread: the bus call it is executing, when the bus
                  \* is used from several threads
    dangling,     \* TRUE when the vector under the running range-for was
                  \* reallocated, so that its iterators are invalid
    nesting       \* history: emit calls made by a handler, with the
                  \* invocation that made them

vars == <<buses, keyStorage, listeners, events, stack, calls, invocations,
          subscribed, keyLog, threads, dangling, nesting>>

\* threads that may use a bus; a thread outside a bus call
Thread == {"t1", "t2"}
Idle == [op |-> "idle"]

\* ---- std::map / std::vector helpers ----
EmptyMap == [k \in {} |-> <<>>]

\* variant of operator[]: the vector of the key is replaced by a new one
MapIndex_fresh(m, k) == (k :> <<>>) @@ m

\* std::map::operator[]: inserts an empty vector when the key is absent
MapIndex(m, k) == IF k \in DOMAIN m THEN m ELSE m @@ (k :> <<>>)

\* variants of push_back: insertion at the front; no insertion of a callback
\* that is already registered
push_back_front(vec, x) == <<x>> \o vec
push_back_unique(vec, x) ==
    IF \E k \in 1..Len(vec) : vec[k] = x THEN vec ELSE Append(vec, x)

\* variant of push_back: a list of bounded size that drops its oldest entry
push_back_ring(vec, x) ==
    IF Len(vec) >= 2 THEN Append(Tail(vec), x) ELSE Append(vec, x)

\* std::vector::push_back
push_back(vec, x) == Append(vec, x)

\* listeners.end()
End == 0

\* variant of find: std::map::lower_bound, the first key not less than k
find_lower_bound(m, k) ==
    IF \E j \in DOMAIN m : j >= k
    THEN CHOOSE j \in DOMAIN m :
             j >= k /\ \A i \in DOMAIN m : i >= k => j <= i
    ELSE End

\* std::map::find: the position of key k, or end()
find(m, k) == IF k \in DOMAIN m THEN k ELSE End

\* ---- EventBus ----
\* variant of getTypeKey: one static shared by all specializations
getTypeKey_shared(T) == keyStorage[CHOOSE t \in EventType : TRUE]

\* variant of getTypeKey: 'key' without static, a local of the function
getTypeKey_local(T) == CHOOSE a \in KeyAddr : TRUE

\* getTypeKey<TEvent>(): address of the function-local static of this
\* specialization
getTypeKey(T) == keyStorage[T]

\* variant of the lambda: the cast names one fixed event type
Thunk_fixedCast(T, handler) ==
    [castTo |-> "PlayerMovedEvent", handler |-> handler]

\* the lambda built by subscribe<TEvent>: captures handler, casts to TEvent
Thunk(T, handler) == [castTo |-> T, handler |-> handler]

\* variant of the dereference: the thunk keeps the first event it was given
ReadAs_stale(T, eventPtr) == {events[1]}

\* *static_cast<const TEvent*>(eventPtr): the object when it is a TEvent,
\* otherwise undefined behaviour (any value may be observed)
ReadAs(T, eventPtr) ==
    IF events[eventPtr].type = T
    THEN {events[eventPtr]}
    ELSE {[type |-> T, val |-> v] : v \in Payload \cup {Garbage}}

Top == stack[Len(stack)]
Pop(stk) == SubSeq(stk, 1, Len(stk) - 1)

\* variant of the loop: the exception of a handler is swallowed
Propagate_caught(stk, threw) == [stk EXCEPT ![Len(stk)].idx = @ + 1]

\* what the range-for of emit does after a handler call: an exception is not
\* caught and leaves emit, otherwise the loop advances
Propagate(stk, threw) ==
    IF threw
    THEN Pop(stk)
    ELSE [stk EXCEPT ![Len(stk)].idx = @ + 1]

TypeOK ==
    /\ buses \subseteq Bus
    /\ keyStorage \in [EventType -> KeyAddr]
    /\ \A b \in Bus : DOMAIN listeners[b] \subseteq KeyAddr
    /\ Len(stack) <= 1
    /\ Len(calls) <= MaxEmits
    /\ Len(events) = Len(calls)

\* the layouts a build can give to the statics: distinct objects have
\* distinct addresses
KeyLayouts ==
    {f \in [EventType -> KeyAddr] :
        \A s, t \in EventType : s /= t => f[s] /= f[t]}

\* main: one bus, in one build of the program
Init ==
    /\ buses = {"gameEventBus"}
    /\ keyStorage = [PlayerMovedEvent |-> 101, EnemySpawnedEvent |-> 102]
    /\ listeners = [b \in Bus |-> EmptyMap]
    /\ events = <<>>
    /\ stack = <<>>
    /\ calls = <<>>
    /\ invocations = <<>>
    /\ subscribed = [b \in Bus |-> [T \in EventType |-> <<>>]]
    /\ keyLog = {}
    /\ threads = [t \in Thread |-> Idle]
    /\ dangling = FALSE
    /\ nesting = <<>>

NumSubs ==
    LET RECURSIVE Sum(_)
        Sum(S) == IF S = {} THEN 0
                  ELSE LET x == CHOOSE y \in S : TRUE
                       IN Len(subscribed[x[1]][x[2]]) + Sum(S \ {x})
    IN Sum(Bus \X EventType)

\* the exploration with two buses makes one subscribe call less
SubsBound == IF Cardinality(buses) > 1 THEN MaxSubs - 1 ELSE MaxSubs

\* variant of subscribe: the listener table is a static member, one for all
\* the buses of the process
subscribe_static(b, T, handler) ==
    /\ stack = <<>>
    /\ NumSubs < SubsBound
    /\ LET key == getTypeKey(T)
       IN /\ listeners' = [x \in Bus |->
                 [MapIndex(listeners[x], key) EXCEPT
                     ![key] = push_back(@, Thunk(T, handler))]]
          /\ keyLog' = keyLog \cup {[bus |-> b, T |-> T, key |-> key]}
    /\ subscribed' = [subscribed EXCEPT ![b][T] = Append(@, handler)]
    /\ UNCHANGED <<threads, dangling, nesting>>
    /\ UNCHANGED <<buses, keyStorage, events, stack, calls, invocations>>

\* variant of subscribe: the new handler is at once called with the last
\* event of its type emitted on the bus (a sticky event)
subscribe_replay(b, T, handler) ==
    /\ stack = <<>>
    /\ NumSubs < SubsBound
    /\ LET key == getTypeKey(T)
           m == MapIndex(listeners[b], key)
           past == {c \in 1..Len(calls) : calls[c].bus = b /\ calls[c].T = T}
           c == CHOOSE x \in past : \A y \in past : y <= x
       IN /\ listeners' = [listeners EXCEPT
                 ![b] = [m EXCEPT ![key] = push_back(@, Thunk(T, handler))]]
          /\ keyLog' = keyLog \cup {[bus |-> b, T |-> T, key |-> key]}
          /\ invocations' =
                IF past = {} THEN invocations
                ELSE Append(invocations,
                       [call |-> c, idx |-> Len(m[key]) + 1,
                        handler |-> handler, seen |-> events[c]])
    /\ subscribed' = [subscribed EXCEPT ![b][T] = Append(@, handler)]
    /\ UNCHANGED <<threads, dangling, nesting>>
    /\ UNCHANGED <<buses, keyStorage, events, stack, calls>>

\* bus.subscribe<T>(handler), called from outside any emit
subscribe(b, T, handler) ==
    /\ stack = <<>>
    /\ NumSubs < SubsBound
    /\ LET key == getTypeKey(T)
           m == MapIndex(listeners[b], key)
       IN /\ listeners' = [listeners EXCEPT
                 ![b] = [m EXCEPT ![key] = push_back(@, Thunk(T, handler))]]
          /\ keyLog' = keyLog \cup {[bus |-> b, T |-> T, key |-> key]}
    /\ subscribed' = [subscribed EXCEPT ![b][T] = Append(@, handler)]
    /\ UNCHANGED <<threads, dangling, nesting>>
    /\ UNCHANGED <<buses, keyStorage, events, stack, calls, invocations>>

\* The handlers only compare payloads, so the caller's event values are
\* explored up to renaming: a value not emitted before is the next unused one.
FreshOrUsed(v) == \A w \in Payload : w < v => \E c \in 1..Len(calls) : calls[c].val = w

\* the exploration with two buses makes one emit call less
EmitsBound == IF Cardinality(buses) > 1 THEN MaxEmits - 1 ELSE MaxEmits

\* variant of emit: the lookup is listeners[key], which inserts the key
emit_insert(b, T, v) ==
    /\ stack = <<>>
    /\ Len(calls) < EmitsBound
    /\ FreshOrUsed(v)
    /\ LET key == getTypeKey(T)
           eventPtr == Len(events) + 1
           m == MapIndex(listeners[b], key)
       IN /\ events' = Append(events, [type |-> T, val |-> v])
          /\ listeners' = [listeners EXCEPT ![b] = m]
          /\ stack' = Append(stack,
                 [bus |-> b, T |-> T, key |-> key, eventPtr |-> eventPtr,
                  it |-> key, idx |-> 1, last |-> Len(m[key]),
                  call |-> Len(calls) + 1])
          /\ keyLog' = keyLog \cup {[bus |-> b, T |-> T, key |-> key]}
    /\ calls' = Append(calls,
                  [bus |-> b, T |-> T, val |-> v, outcome |-> "running",
                   registered |-> subscribed[b][T]])
    /\ UNCHANGED <<threads, dangling, nesting>>
    /\ UNCHANGED <<buses, keyStorage, subscribed, invocations>>

\* variant of emit: after an aborted emit<T> the next one goes on at the
\* listener that follows the one that threw
emit_resume(b, T, v) ==
    /\ stack = <<>>
    /\ Len(calls) < EmitsBound
    /\ FreshOrUsed(v)
    /\ LET key == getTypeKey(T)
           eventPtr == Len(events) + 1
           it == find(listeners[b], key)
           past == {c \in 1..Len(calls) : calls[c].bus = b /\ calls[c].T = T}
           prev == CHOOSE x \in past : \A y \in past : y <= x
           done(i) == i.call = prev
       IN /\ events' = Append(events, [type |-> T, val |-> v])
          /\ stack' = Append(stack,
                 [bus |-> b, T |-> T, key |-> key, eventPtr |-> eventPtr,
                  it |-> it,
                  idx |-> IF past /= {} /\ calls[prev].outcome = "threw"
                          THEN Len(SelectSeq(invocations, done)) + 1
                          ELSE 1,
                  last |-> IF it /= End THEN Len(listeners[b][it]) ELSE 0,
                  call |-> Len(calls) + 1])
          /\ keyLog' = keyLog \cup {[bus |-> b, T |-> T, key |-> key]}
    /\ calls' = Append(calls,
                  [bus |-> b, T |-> T, val |-> v, outcome |-> "running",
                   registered |-> subscribed[b][T]])
    /\ UNCHANGED <<threads, dangling, nesting>>
    /\ UNCHANGED <<buses, keyStorage, listeners, subscribed, invocations>>

\* bus.emit<T>(event) is entered: key lookup and start of the range-for
emit(b, T, v) ==
    /\ stack = <<>>
    /\ Len(calls) < EmitsBound
    /\ FreshOrUsed(v)
    /\ LET key == getTypeKey(T)
           eventPtr == Len(events) + 1
           it == find(listeners[b], key)
       IN /\ events' = Append(events, [type |-> T, val |-> v])
          /\ stack' = Append(stack,
                 [bus |-> b, T |-> T, key |-> key, eventPtr |-> eventPtr,
                  it |-> it, idx |-> 1,
                  last |-> IF it /= End THEN Len(listeners[b][it]) ELSE 0,
                  call |-> Len(calls) + 1])
          /\ keyLog' = keyLog \cup {[bus |-> b, T |-> T, key |-> key]}
    /\ calls' = Append(calls,
                  [bus |-> b, T |-> T, val |-> v, outcome |-> "running",
                   registered |-> subscribed[b][T]])
    /\ UNCHANGED <<threads, dangling, nesting>>
    /\ UNCHANGED <<buses, keyStorage, listeners, subscribed, invocations>>

\* one iteration of the range-for: handler(static_cast<const void*>(&event))
InvokeListener ==
    /\ stack /= <<>>
    /\ Top.it /= End
    /\ Top.idx <= Top.last
    /\ LET f == Top
           entry == listeners[f.bus][f.it][f.idx]
           threw == HandlerThrows(entry.handler)
       IN /\ \E seen \in ReadAs(entry.castTo, f.eventPtr) :
                invocations' = Append(invocations,
                    [call |-> f.call, idx |-> f.idx,
                     handler |-> entry.handler, seen |-> seen])
          /\ stack' = Propagate(stack, threw)
          /\ calls' = IF Len(stack') < Len(stack)
                      THEN [calls EXCEPT ![f.call].outcome = "threw"]
                      ELSE calls
    /\ UNCHANGED <<threads, dangling, nesting>>
    /\ UNCHANGED <<buses, keyStorage, listeners, events, subscribed, keyLog>>

\* variant of the return: emit returns while entries are still to be called
EmitReturn_early ==
    /\ stack /= <<>>
    /\ calls' = [calls EXCEPT ![Top.call].outcome = "returned"]
    /\ stack' = Pop(stack)
    /\ UNCHANGED <<threads, dangling, nesting>>
    /\ UNCHANGED <<buses, keyStorage, listeners, events, subscribed, invocations,
                   keyLog>>

\* variant of the return: the loop over a vector has no exit, emit returns
\* only through the else branch
EmitReturn_noExit ==
    /\ stack /= <<>>
    /\ Top.it = End
    /\ calls' = [calls EXCEPT ![Top.call].outcome = "returned"]
    /\ stack' = Pop(stack)
    /\ UNCHANGED <<threads, dangling, nesting>>
    /\ UNCHANGED <<buses, keyStorage, listeners, events, subscribed, invocations,
                   keyLog>>

\* emit returns: the loop is over, or the else branch was taken
EmitReturn ==
    /\ stack /= <<>>
    /\ (Top.it = End \/ Top.idx > Top.last)
    /\ calls' = [calls EXCEPT ![Top.call].outcome = "returned"]
    /\ stack' = Pop(stack)
    /\ UNCHANGED <<threads, dangling, nesting>>
    /\ UNCHANGED <<buses, keyStorage, listeners, events, subscribed, invocations,
                   keyLog>>

Next ==
    \/ \E b \in buses, T \in EventType, h \in Handler : subscribe(b, T, h)
    \/ \E b \in buses, T \in EventType, v \in Payload : emit(b, T, v)
    \/ InvokeListener
    \/ EmitReturn

Spec == Init /\ [][Next]_vars

\* emit is straight-line code on the calling thread: once entered, and with
\* handlers that come back, its loop goes on and its return is reached
\* (one returning and one throwing handler are enough for the loop's exits)
FairHandler == {"h1", "hThrow"}

NextFair ==
    \/ \E b \in buses, T \in EventType, h \in FairHandler : subscribe(b, T, h)
    \/ \E b \in buses, T \in EventType, v \in Payload : emit(b, T, v)
    \/ InvokeListener
    \/ EmitReturn

SpecFair ==
    /\ Init /\ [][NextFair]_vars
    /\ WF_vars(InvokeListener) /\ WF_vars(EmitReturn)

\* a program with two EventBus objects, in any build
InitBuses ==
    /\ buses = Bus
    /\ keyStorage \in KeyLayouts
    /\ listeners = [b \in Bus |-> EmptyMap]
    /\ events = <<>>
    /\ stack = <<>>
    /\ calls = <<>>
    /\ invocations = <<>>
    /\ subscribed = [b \in Bus |-> [T \in EventType |-> <<>>]]
    /\ keyLog = {}
    /\ threads = [t \in Thread |-> Idle]
    /\ dangling = FALSE
    /\ nesting = <<>>

SpecBuses == InitBuses /\ [][Next]_vars

\* ---- the bus used from two threads without synchronization ----
\* A thread holds its own activation of subscribe or emit.  subscribe writes
\* the table between its call and its return (listeners[key].push_back), emit
\* reads it from find to the end of the range-for.  The class has no mutex
\* member, so no step waits for another thread.
Busy(t) == threads[t].op /= "idle"

\* the exploration with two threads makes one call less of each kind
ThreadSubsBound == MaxSubs - 1
ThreadEmitsBound == MaxEmits - 1
PendingSubs == Cardinality({t \in Thread : threads[t].op = "subscribe"})

\* two threads inside the same table at once, one of them writing it
DataRace ==
    \E t, u \in Thread :
        /\ t /= u
        /\ threads[t].op = "subscribe"
        /\ Busy(u)
        /\ threads[u].bus = threads[t].bus
        /\ threads[u].op = "emit" => threads[u].key = threads[t].key

\* variant of the entry of subscribe: a std::lock_guard on a mutex of the bus
ThreadSubscribeCall_locked(t, b, T, handler) ==
    /\ ~DataRace
    /\ ~Busy(t)
    /\ \A u \in Thread \ {t} : ~Busy(u) \/ threads[u].bus /= b
    /\ NumSubs + PendingSubs < ThreadSubsBound
    /\ threads' = [threads EXCEPT ![t] =
          [op |-> "subscribe", bus |-> b, T |-> T, handler |-> handler,
           key |-> getTypeKey(T)]]
    /\ keyLog' = keyLog \cup {[bus |-> b, T |-> T, key |-> getTypeKey(T)]}
    /\ UNCHANGED <<dangling, nesting, buses, keyStorage, listeners, events,
                   stack, calls, invocations, subscribed>>

\* thread t enters bus.subscribe<T>(handler) and starts to write the table
ThreadSubscribeCall(t, b, T, handler) ==
    /\ ~DataRace
    /\ ~Busy(t)
    /\ NumSubs + PendingSubs < ThreadSubsBound
    /\ threads' = [threads EXCEPT ![t] =
          [op |-> "subscribe", bus |-> b, T |-> T, handler |-> handler,
           key |-> getTypeKey(T)]]
    /\ keyLog' = keyLog \cup {[bus |-> b, T |-> T, key |-> getTypeKey(T)]}
    /\ UNCHANGED <<dangling, nesting, buses, keyStorage, listeners, events,
                   stack, calls, invocations, subscribed>>

\* the push_back of thread t is complete and subscribe returns
ThreadSubscribeReturn(t) ==
    /\ ~DataRace
    /\ threads[t].op = "subscribe"
    /\ LET f == threads[t]
           m == MapIndex(listeners[f.bus], f.key)
       IN /\ listeners' = [listeners EXCEPT ![f.bus] =
                 [m EXCEPT ![f.key] = push_back(@, Thunk(f.T, f.handler))]]
          /\ subscribed' = [subscribed EXCEPT
                 ![f.bus][f.T] = Append(@, f.handler)]
    /\ threads' = [threads EXCEPT ![t] = Idle]
    /\ UNCHANGED <<dangling, nesting, buses, keyStorage, events, stack, calls,
                   invocations, keyLog>>

\* thread t enters bus.emit<T>(event): find, then the range-for starts
ThreadEmitCall(t, b, T, v) ==
    /\ ~DataRace
    /\ ~Busy(t)
    /\ Len(calls) < ThreadEmitsBound
    /\ FreshOrUsed(v)
    /\ LET key == getTypeKey(T)
           it == find(listeners[b], key)
       IN /\ threads' = [threads EXCEPT ![t] =
                 [op |-> "emit", bus |-> b, T |-> T, key |-> key,
                  eventPtr |-> Len(events) + 1, it |-> it, idx |-> 1,
                  last |-> IF it /= End THEN Len(listeners[b][it]) ELSE 0,
                  call |-> Len(calls) + 1]]
          /\ keyLog' = keyLog \cup {[bus |-> b, T |-> T, key |-> key]}
    /\ events' = Append(events, [type |-> T, val |-> v])
    /\ calls' = Append(calls,
                  [bus |-> b, T |-> T, val |-> v, outcome |-> "running",
                   registered |-> subscribed[b][T]])
    /\ UNCHANGED <<dangling, nesting, buses, keyStorage, listeners, stack,
                   subscribed, invocations>>

\* one iteration of the range-for of thread t
ThreadInvokeListener(t) ==
    /\ ~DataRace
    /\ threads[t].op = "emit"
    /\ threads[t].it /= End
    /\ threads[t].idx <= threads[t].last
    /\ LET f == threads[t]
           entry == listeners[f.bus][f.it][f.idx]
       IN /\ \E seen \in ReadAs(entry.castTo, f.eventPtr) :
                invocations' = Append(invocations,
                    [call |-> f.call, idx |-> f.idx,
                     handler |-> entry.handler, seen |-> seen])
          /\ IF HandlerThrows(entry.handler)
             THEN /\ threads' = [threads EXCEPT ![t] = Idle]
                  /\ calls' = [calls EXCEPT ![f.call].outcome = "threw"]
             ELSE /\ threads' = [threads EXCEPT ![t].idx = @ + 1]
                  /\ calls' = calls
    /\ UNCHANGED <<dangling, nesting, buses, keyStorage, listeners, events,
                   stack, subscribed, keyLog>>

\* emit of thread t returns
ThreadEmitReturn(t) ==
    /\ ~DataRace
    /\ threads[t].op = "emit"
    /\ (threads[t].it = End \/ threads[t].idx > threads[t].last)
    /\ calls' = [calls EXCEPT ![threads[t].call].outcome = "returned"]
    /\ threads' = [threads EXCEPT ![t] = Idle]
    /\ UNCHANGED <<dangling, nesting, buses, keyStorage, listeners, events,
                   stack, subscribed, invocations, keyLog>>

\* the callbacks of the threaded exploration
ThreadHandler == {"h1", "hThrow"}

\* What the program does after a data race is undefined; the exploration
\* stops there.
NextThreads ==
    \E t \in Thread :
        \/ \E b \in buses, T \in EventType, h \in ThreadHandler :
              ThreadSubscribeCall(t, b, T, h)
        \/ ThreadSubscribeReturn(t)
        \/ \E b \in buses, T \in EventType, v \in Payload :
              ThreadEmitCall(t, b, T, v)
        \/ ThreadInvokeListener(t)
        \/ ThreadEmitReturn(t)

SpecThreads == Init /\ [][NextThreads]_vars

\* ---- a handler that subscribes while it is being called ----
\* "hSub" is a callback that, called by emit<T> on a bus, calls
\* subscribe<T>("h1") on the same bus.  Its push_back goes to the vector the
\* range-for of emit is iterating.
ReentrantHandler == {"h1", "h2", "hSub"}

\* std::vector::push_back reallocates when size() = capacity().  A vector
\* grown one push_back at a time has capacity 1 at size 1 and 2 at size 2
\* in the common library implementations; beyond that the growth factor
\* differs between them.
MayReallocate(n) == IF n <= 2 THEN {TRUE} ELSE BOOLEAN

TopEntry == listeners[Top.bus][Top.it][Top.idx]
InLoop == stack /= <<>> /\ Top.it /= End /\ Top.idx <= Top.last

\* one iteration of the range-for whose handler is "hSub"
InvokeSubscriber ==
    /\ InLoop
    /\ ~dangling
    /\ TopEntry.handler = "hSub"
    /\ NumSubs < SubsBound
    /\ LET f == Top
           entry == TopEntry
           vec == listeners[f.bus][f.key]
       IN /\ \E seen \in ReadAs(entry.castTo, f.eventPtr) :
                invocations' = Append(invocations,
                    [call |-> f.call, idx |-> f.idx,
                     handler |-> entry.handler, seen |-> seen])
          /\ listeners' = [listeners EXCEPT
                 ![f.bus][f.key] = push_back(@, Thunk(f.T, "h1"))]
          /\ subscribed' = [subscribed EXCEPT ![f.bus][f.T] = Append(@, "h1")]
          /\ \E realloc \in MayReallocate(Len(vec)) :
                /\ dangling' = realloc
                /\ stack' = IF realloc THEN stack
                            ELSE [stack EXCEPT ![Len(stack)].idx = @ + 1]
    /\ UNCHANGED <<threads, nesting, buses, keyStorage, events, calls, keyLog>>

\* The range-for goes on with iterators into the freed buffer: undefined
\* behaviour.  The outcomes: the process is terminated, the loop ends at
\* once, or the loop goes on as if nothing had moved.
UndefinedIteration ==
    /\ stack /= <<>>
    /\ dangling
    /\ dangling' = FALSE
    /\ \E outcome \in {"crashed", "returned", "goes on"} :
          IF outcome = "goes on"
          THEN /\ stack' = [stack EXCEPT ![Len(stack)].idx = @ + 1]
               /\ calls' = calls
          ELSE /\ stack' = Pop(stack)
               /\ calls' = [calls EXCEPT ![Top.call].outcome = outcome]
    /\ UNCHANGED <<threads, nesting, buses, keyStorage, listeners, events,
                   subscribed, invocations, keyLog>>

NextReentrant ==
    \/ \E b \in buses, T \in EventType, h \in ReentrantHandler :
          subscribe(b, T, h)
    \/ \E b \in buses, T \in EventType, v \in Payload : emit(b, T, v)
    \/ (InLoop /\ ~dangling /\ TopEntry.handler /= "hSub") /\ InvokeListener
    \/ ~dangling /\ EmitReturn
    \/ InvokeSubscriber
    \/ UndefinedIteration

SpecReentrant == Init /\ [][NextReentrant]_vars

\* ---- a handler that emits while it is being called ----
\* "hEmit" is a callback taking a PlayerMovedEvent that calls
\* emit<EnemySpawnedEvent> on the bus that is calling it.  nesting logs each
\* such call: the outer emit call and its loop position, the inner emit
\* call, and whether the handler has got the control back.
NestedHandler == {"h1", "h2", "hEmit"}
NestedType == "EnemySpawnedEvent"

InHandler == \E n \in 1..Len(nesting) : ~nesting[n].done

InnerReturned ==
    /\ InHandler
    /\ calls[nesting[Len(nesting)].inner].outcome /= "running"

\* variant of the nested call: the event is queued and dispatched when the
\* running emit has returned
NestedEmitCall_queued ==
    /\ InLoop
    /\ ~InHandler
    /\ TopEntry.handler = "hEmit"
    /\ Len(calls) < EmitsBound
    /\ LET f == Top
           key == getTypeKey(NestedType)
           eventPtr == Len(events) + 1
           it == find(listeners[f.bus], key)
       IN /\ \E seen \in ReadAs(TopEntry.castTo, f.eventPtr) :
                invocations' = Append(invocations,
                    [call |-> f.call, idx |-> f.idx,
                     handler |-> TopEntry.handler, seen |-> seen])
          /\ \E v \in Payload :
                /\ FreshOrUsed(v)
                /\ events' = Append(events, [type |-> NestedType, val |-> v])
                /\ calls' = Append(calls,
                      [bus |-> f.bus, T |-> NestedType, val |-> v,
                       outcome |-> "running",
                       registered |-> subscribed[f.bus][NestedType]])
          /\ stack' = <<[bus |-> f.bus, T |-> NestedType, key |-> key,
                         eventPtr |-> eventPtr, it |-> it, idx |-> 1,
                         last |-> IF it /= End
                                  THEN Len(listeners[f.bus][it]) ELSE 0,
                         call |-> Len(calls) + 1]>>
                      \o [stack EXCEPT ![Len(stack)].idx = @ + 1]
          /\ keyLog' = keyLog \cup
                {[bus |-> f.bus, T |-> NestedType, key |-> key]}
          /\ nesting' = Append(nesting,
                [outer |-> f.call, idx |-> f.idx,
                 inner |-> Len(calls) + 1, done |-> TRUE])
    /\ UNCHANGED <<threads, dangling, buses, keyStorage, listeners, subscribed>>

\* one iteration of the range-for whose handler is "hEmit": the handler is
\* entered and its emit<EnemySpawnedEvent>(v) is entered in turn, on top of
\* the running emit
NestedEmitCall ==
    /\ InLoop
    /\ ~InHandler
    /\ TopEntry.handler = "hEmit"
    /\ Len(calls) < EmitsBound
    /\ LET f == Top
           key == getTypeKey(NestedType)
           eventPtr == Len(events) + 1
           it == find(listeners[f.bus], key)
       IN /\ \E seen \in ReadAs(TopEntry.castTo, f.eventPtr) :
                invocations' = Append(invocations,
                    [call |-> f.call, idx |-> f.idx,
                     handler |-> TopEntry.handler, seen |-> seen])
          /\ \E v \in Payload :
                /\ FreshOrUsed(v)
                /\ events' = Append(events, [type |-> NestedType, val |-> v])
                /\ calls' = Append(calls,
                      [bus |-> f.bus, T |-> NestedType, val |-> v,
                       outcome |-> "running",
                       registered |-> subscribed[f.bus][NestedType]])
          /\ stack' = Append(stack,
                 [bus |-> f.bus, T |-> NestedType, key |-> key,
                  eventPtr |-> eventPtr, it |-> it, idx |-> 1,
                  last |-> IF it /= End THEN Len(listeners[f.bus][it]) ELSE 0,
                  call |-> Len(calls) + 1])
          /\ keyLog' = keyLog \cup
                {[bus |-> f.bus, T |-> NestedType, key |-> key]}
          /\ nesting' = Append(nesting,
                [outer |-> f.call, idx |-> f.idx,
                 inner |-> Len(calls) + 1, done |-> FALSE])
    /\ UNCHANGED <<threads, dangling, buses, keyStorage, listeners, subscribed>>

\* the nested emit has returned to "hEmit", which returns to the range-for
\* of the outer emit: the loop advances
HandlerResumes ==
    /\ InnerReturned
    /\ stack' = Propagate(stack, FALSE)
    /\ nesting' = [nesting EXCEPT ![Len(nesting)].done = TRUE]
    /\ UNCHANGED <<threads, dangling, buses, keyStorage, listeners, events,
                   calls, subscribed, invocations, keyLog>>

NextNested ==
    \/ \E b \in buses, T \in EventType, h \in NestedHandler :
          /\ h = "hEmit" => T /= NestedType
          /\ subscribe(b, T, h)
    \/ \E b \in buses, T \in EventType, v \in Payload : emit(b, T, v)
    \/ (InLoop /\ ~InnerReturned /\ TopEntry.handler /= "hEmit")
          /\ InvokeListener
    \/ ~InnerReturned /\ EmitReturn
    \/ NestedEmitCall
    \/ HandlerResumes

SpecNested == Init /\ [][NextNested]_vars

\* ---- vocabulary of the properties ----
CallIds == 1..Len(calls)
InvIds == 1..Len(invocations)

\* the handler calls made by emit call c, in time order
InvocationsOf(c) ==
    LET ofCall(i) == i.call = c IN SelectSeq(invocations, ofCall)
HandlersOf(c) ==
    [k \in 1..Len(InvocationsOf(c)) |-> InvocationsOf(c)[k].handler]
IdxOf(c) ==
    [k \in 1..Len(InvocationsOf(c)) |-> InvocationsOf(c)[k].idx]

\* the handlers subscribed for the type of call c when the call started
Registered(c) == calls[c].registered
NoThrower(seq) == \A k \in 1..Len(seq) : ~HandlerThrows(seq[k])
SubscribedFor(b, T, h) ==
    \E k \in 1..Len(subscribed[b][T]) : subscribed[b][T][k] = h
Occurrences(seq, h) == Cardinality({k \in 1..Len(seq) : seq[k] = h})

\* C1 (type isolation): a handler subscribed for a type A and not for B is
\* never invoked by an emit<B>, whatever subscribe and emit calls were made.
TypeIsolation ==
    \A i \in InvIds : \A A \in EventType :
        LET c == calls[invocations[i].call]
            h == invocations[i].handler
        IN ~(/\ A /= c.T
             /\ SubscribedFor(c.bus, A, h)
             /\ ~SubscribedFor(c.bus, c.T, h))

\* an emit<B> ran listeners and returned on a bus where an earlier emit<A>
\* had found a listener that B does not have
TypeIsolationWitness ==
    \E c, d \in CallIds :
        /\ d < c
        /\ calls[d].bus = calls[c].bus
        /\ calls[d].T /= calls[c].T
        /\ calls[c].outcome = "returned"
        /\ InvocationsOf(c) /= <<>>
        /\ \E k \in 1..Len(Registered(d)) :
              ~SubscribedFor(calls[c].bus, calls[c].T, Registered(d)[k])

\* C2 (fan-out in order): an emit<T> that returns, with n >= 1 listeners of T
\* none of which throws, has invoked each of them exactly once, in the order
\* of their subscription.
FanOutInOrder ==
    \A c \in CallIds :
        (/\ calls[c].outcome = "returned"
         /\ Len(Registered(c)) >= 1
         /\ NoThrower(Registered(c)))
        => (/\ HandlersOf(c) = Registered(c)
            /\ IdxOf(c) = [k \in 1..Len(Registered(c)) |-> k])

FanOutWitness ==
    \E c \in CallIds :
        /\ calls[c].outcome = "returned"
        /\ Registered(c) = <<"h1", "h2", "h1">>

\* C3 (failure propagation): when the k-th listener of T throws during an
\* emit<T>, listeners 1..k-1 were invoked once each, listeners k+1..n are not
\* invoked by that call, and the call ends with the exception at its caller.
FailurePropagation ==
    \A i \in InvIds :
        LET c == invocations[i].call
            k == invocations[i].idx
        IN HandlerThrows(invocations[i].handler)
           => (/\ calls[c].outcome = "threw"
               /\ IdxOf(c) = [j \in 1..k |-> j]
               /\ HandlersOf(c) = SubSeq(Registered(c), 1, k))

\* the second of three listeners threw
FailurePropagationWitness ==
    \E c \in CallIds :
        /\ calls[c].outcome = "threw"
        /\ Len(Registered(c)) = 3
        /\ ~HandlerThrows(Registered(c)[1])
        /\ HandlerThrows(Registered(c)[2])
        /\ Len(InvocationsOf(c)) = 2

\* C4 (absent-listener no-op): an emit<T> on a bus where subscribe<T> was
\* never called invokes no handler at all, does not throw, and returns.
AbsentListenerNoOp ==
    \A c \in CallIds :
        Registered(c) = <<>>
        => (/\ InvocationsOf(c) = <<>>
            /\ calls[c].outcome /= "threw"
            /\ calls[c].outcome = "running"
                  => (stack /= <<>> /\ Top.call = c /\ ENABLED EmitReturn))

\* such an emit returned on a bus whose listeners of another type had
\* been invoked by an earlier emit
AbsentListenerWitness ==
    \E c, d \in CallIds :
        /\ d < c
        /\ calls[d].bus = calls[c].bus
        /\ InvocationsOf(d) /= <<>>
        /\ Registered(c) = <<>>
        /\ calls[c].outcome = "returned"

\* C5 (payload fidelity): every handler invocation made by an emit<T>(e)
\* observes an object of type T with the value of e.
PayloadFidelity ==
    \A i \in InvIds :
        LET c == calls[invocations[i].call]
        IN invocations[i].seen = [type |-> c.T, val |-> c.val]

\* two emits with different payloads and types each reached a handler
PayloadFidelityWitness ==
    \E i, j \in InvIds :
        /\ invocations[i].seen.val /= invocations[j].seen.val
        /\ invocations[i].seen.type /= invocations[j].seen.type

\* C6 (independence across emits): for emit<T>(e1) followed by emit<T>(e2)
\* on one bus, e1 /= e2, no throwing listener: every listener of T is invoked
\* once with e1 and once with e2, and all deliveries of e1 precede those of e2.
DeliveredOnce(c) ==
    \A k \in 1..Len(Registered(c)) :
        Cardinality({i \in InvIds :
            /\ invocations[i].call = c
            /\ invocations[i].idx = k
            /\ invocations[i].handler = Registered(c)[k]
            /\ invocations[i].seen.val = calls[c].val}) = 1

IndependenceAcrossEmits ==
    \A c1, c2 \in CallIds :
        (/\ c1 < c2
         /\ calls[c1].bus = calls[c2].bus
         /\ calls[c1].T = calls[c2].T
         /\ calls[c1].val /= calls[c2].val
         /\ calls[c1].outcome = "returned"
         /\ calls[c2].outcome = "returned"
         /\ NoThrower(Registered(c2)))
        => (/\ DeliveredOnce(c1)
            /\ DeliveredOnce(c2)
            /\ Len(InvocationsOf(c1)) = Len(Registered(c1))
            /\ Len(InvocationsOf(c2)) = Len(Registered(c2))
            /\ \A i, j \in InvIds :
                  (invocations[i].call = c1 /\ invocations[j].call = c2)
                  => i < j)

IndependenceWitness ==
    \E c1, c2 \in CallIds :
        /\ c1 < c2
        /\ calls[c1].bus = calls[c2].bus
        /\ calls[c1].T = calls[c2].T
        /\ calls[c1].val /= calls[c2].val
        /\ calls[c1].outcome = "returned"
        /\ calls[c2].outcome = "returned"
        /\ Len(Registered(c1)) >= 2
        /\ Registered(c2) = Registered(c1)
        /\ NoThrower(Registered(c2))

\* C7 (TypeKey uniqueness and stability): over the whole run and on every
\* bus, two getTypeKey calls return equal keys exactly when they are for the
\* same event type, and the key storage of a type never moves.
TypeKeyUniqueStable ==
    /\ \A x, y \in keyLog : (x.T = y.T) <=> (x.key = y.key)
    /\ \A x \in keyLog : x.key = keyStorage[x.T]

\* keys of one type were taken on both buses and keys of both types on one
\* bus, by subscribe and by emit
TypeKeyWitness ==
    /\ \E x, y \in keyLog : x.bus /= y.bus /\ x.T = y.T
    /\ \E x, y \in keyLog : x.bus = y.bus /\ x.T /= y.T
    /\ Len(calls) >= 1

\* C8 (subscribe is append-only): a subscribe<T>(h) step adds one entry for h
\* at the end of the sequence keyed by T, creating it when absent, keeps the
\* older entries of that sequence in place, and changes no other sequence.
SubscribeStep(b, T) ==
    LET key == keyStorage[T]
        old == IF key \in DOMAIN listeners[b] THEN listeners[b][key]
               ELSE <<>>
        new == listeners'[b]
    IN /\ DOMAIN new = DOMAIN listeners[b] \cup {key}
       /\ Len(new[key]) = Len(old) + 1
       /\ SubSeq(new[key], 1, Len(old)) = old
       /\ new[key][Len(old) + 1].handler
             = subscribed'[b][T][Len(subscribed'[b][T])]
       /\ \A k \in DOMAIN listeners[b] \ {key} : new[k] = listeners[b][k]
       /\ \A b2 \in Bus \ {b} : listeners'[b2] = listeners[b2]

SubscribeAppendOnly ==
    [][\A b \in Bus : \A T \in EventType :
          subscribed'[b][T] /= subscribed[b][T] => SubscribeStep(b, T)]_vars

\* subscribe has extended an existing sequence next to another type's one
SubscribeAppendWitness ==
    \E b \in Bus : \E T, U \in EventType :
        /\ T /= U
        /\ Len(subscribed[b][T]) >= 2
        /\ Len(subscribed[b][U]) >= 1
        /\ Len(listeners[b][keyStorage[T]]) >= 2

\* C9 (no deduplication): a handler subscribed k times for T has k entries
\* in T's sequence, and an emit<T> without throwing listener that returns has
\* invoked it exactly k times.
NoDeduplication ==
    /\ \A b \in buses : \A T \in EventType : \A h \in Handler :
          LET key == keyStorage[T]
              seq == IF key \in DOMAIN listeners[b] THEN listeners[b][key]
                     ELSE <<>>
          IN Cardinality({k \in 1..Len(seq) : seq[k].handler = h})
               = Occurrences(subscribed[b][T], h)
    /\ \A c \in CallIds :
          (calls[c].outcome = "returned" /\ NoThrower(Registered(c)))
          => \A h \in Handler :
                Occurrences(HandlersOf(c), h) = Occurrences(Registered(c), h)

\* one handler was subscribed three times and an emit has run it
NoDeduplicationWitness ==
    \E c \in CallIds :
        /\ calls[c].outcome = "returned"
        /\ Registered(c) = <<"h2", "h2", "h2">>

\* C10 (emit does not mutate the listener table): no step of an emit call
\* (entry, handler invocation, return or exception) changes the table; in
\* particular an emit of a type without key creates no key.
EmitDoesNotMutate ==
    [][(stack /= <<>> \/ stack' /= <<>>) => listeners' = listeners]_vars

\* an emit was aborted by a handler and an emit of a type without listeners
\* returned, and that type still has no key
EmitDoesNotMutateWitness ==
    \E c, d \in CallIds :
        /\ calls[c].outcome = "threw"
        /\ calls[d].outcome = "returned"
        /\ Registered(d) = <<>>
        /\ keyStorage[calls[d].T] \notin DOMAIN listeners[calls[d].bus]

\* C11 (synchronous delivery): every handler invocation of an emit call is
\* made while that call is running, on top of the call stack; when the call
\* has returned, every listener of its sequence has been called and none is
\* called for it afterwards.
InvokedWhileRunning ==
    \A i \in 1..Len(invocations') :
        i > Len(invocations)
        => LET c == invocations'[i].call
           IN /\ c \in CallIds
              /\ calls[c].outcome = "running"
              /\ stack /= <<>>
              /\ Top.call = c

NothingPending ==
    \A c \in CallIds :
        calls[c].outcome = "returned"
        => /\ Len(InvocationsOf(c)) = Len(Registered(c))
           /\ \A k \in 1..Len(stack) : stack[k].call /= c

SynchronousDelivery == [][InvokedWhileRunning]_vars /\ []NothingPending

\* an emit with two listeners returned and another emit came after it
SynchronousDeliveryWitness ==
    \E c, d \in CallIds :
        /\ c < d
        /\ calls[c].outcome = "returned"
        /\ Len(InvocationsOf(c)) >= 2
        /\ InvocationsOf(d) /= <<>>

\* C12 (subscriptions are permanent): no step removes or moves an entry of
\* any sequence, so sequences never shrink; and every finished emit<T> that
\* was not aborted before the position of a handler subscribed earlier has
\* invoked that handler.
EntriesKept ==
    \A b \in Bus : \A k \in DOMAIN listeners[b] :
        /\ k \in DOMAIN listeners'[b]
        /\ Len(listeners'[b][k]) >= Len(listeners[b][k])
        /\ SubSeq(listeners'[b][k], 1, Len(listeners[b][k])) = listeners[b][k]

InvokedByLaterEmits ==
    \A c \in CallIds : \A k \in 1..Len(Registered(c)) :
        (/\ calls[c].outcome /= "running"
         /\ NoThrower(SubSeq(Registered(c), 1, k - 1)))
        => \E i \in InvIds :
              /\ invocations[i].call = c
              /\ invocations[i].idx = k
              /\ invocations[i].handler
                    = subscribed[calls[c].bus][calls[c].T][k]

SubscriptionsPermanent == [][EntriesKept]_vars /\ []InvokedByLaterEmits

\* a handler was invoked by two emits, with a subscribe between them
SubscriptionsPermanentWitness ==
    \E c, d \in CallIds :
        /\ c < d
        /\ calls[c].bus = calls[d].bus /\ calls[c].T = calls[d].T
        /\ calls[c].outcome = "returned" /\ calls[d].outcome = "returned"
        /\ Len(Registered(c)) >= 1
        /\ Len(Registered(d)) > Len(Registered(c))

\* C13 (unsynchronized concurrent use is unsafe): the bus holds no lock: a
\* thread outside the bus can always enter subscribe and emit, and a thread
\* inside can always take its next step, whatever the other thread is doing
\* on the same bus; so a state is reached in which one thread writes the
\* table while the other reads or writes it (the witness).
CanStep(t) ==
    \/ ENABLED ThreadSubscribeReturn(t)
    \/ ENABLED ThreadInvokeListener(t)
    \/ ENABLED ThreadEmitReturn(t)

NoLockHeld ==
    ~DataRace =>
        \A t \in Thread :
            /\ Busy(t) => CanStep(t)
            /\ (~Busy(t) /\ NumSubs + PendingSubs < ThreadSubsBound)
                 => \A b \in buses, T \in EventType :
                       ENABLED ThreadSubscribeCall(t, b, T, "h1")
            /\ (~Busy(t) /\ Len(calls) < ThreadEmitsBound)
                 => \A b \in buses, T \in EventType :
                       ENABLED ThreadEmitCall(t, b, T, 1)

\* one thread is writing T's sequence while the other is inside the
\* range-for of emit<T> over that sequence
RaceWitness ==
    \E t, u \in Thread :
        /\ threads[t].op = "subscribe"
        /\ threads[u].op = "emit"
        /\ threads[u].bus = threads[t].bus
        /\ threads[u].key = threads[t].key
        /\ threads[u].idx <= threads[u].last
        /\ DataRace

\* C14 (pairing invariant): every entry stored under a key was built by
\* subscribe<T> for the type T of that key, and every thunk called by an
\* emit<T> casts the untyped payload to T.
PairingInvariant ==
    /\ \A b \in Bus : \A k \in DOMAIN listeners[b] :
          \A n \in 1..Len(listeners[b][k]) :
              keyStorage[listeners[b][k][n].castTo] = k
    /\ \A i \in InvIds :
          invocations[i].seen.type = calls[invocations[i].call].T

\* both keys hold entries and emits of both types have called thunks
PairingWitness ==
    /\ \E b \in Bus :
          \A T \in EventType :
              /\ keyStorage[T] \in DOMAIN listeners[b]
              /\ listeners[b][keyStorage[T]] /= <<>>
    /\ \A T \in EventType :
          \E i \in InvIds : calls[invocations[i].call].T = T

\* C15 (re-entrant subscribe during dispatch is safe): when a handler called
\* by emit<T>(e) subscribes for T on the same bus, the iteration never uses
\* an invalidated position, and the call returns after invoking every
\* listener registered when it began exactly once, in order, with e.
CallsSubscriber(c) ==
    \E i \in InvIds :
        invocations[i].call = c /\ invocations[i].handler = "hSub"

ReentrantSubscribeSafe ==
    /\ ~dangling
    /\ \A c \in CallIds :
          (CallsSubscriber(c) /\ calls[c].outcome /= "running")
          => /\ calls[c].outcome = "returned"
             /\ HandlersOf(c) = Registered(c)
             /\ IdxOf(c) = [k \in 1..Len(Registered(c)) |-> k]
             /\ \A i \in InvIds :
                   invocations[i].call = c
                   => invocations[i].seen
                        = [type |-> calls[c].T, val |-> calls[c].val]

\* C16 (no replay of past events): a handler is never invoked by an emit
\* call that started before it was subscribed; and when no emit is running
\* and T has no throwing listener, each listener of T has been invoked as
\* many times as emit<T> calls started after its subscription.
InvocationsOfEntry(b, T, k) ==
    {i \in InvIds :
        /\ calls[invocations[i].call].bus = b
        /\ calls[invocations[i].call].T = T
        /\ invocations[i].idx = k}

EmitsAfterSubscription(b, T, k) ==
    {c \in CallIds :
        calls[c].bus = b /\ calls[c].T = T /\ Len(Registered(c)) >= k}

NoReplay ==
    /\ \A i \in InvIds :
          invocations[i].idx <= Len(Registered(invocations[i].call))
    /\ stack = <<>> =>
          \A b \in buses : \A T \in EventType :
              NoThrower(subscribed[b][T]) =>
                  \A k \in 1..Len(subscribed[b][T]) :
                      Cardinality(InvocationsOfEntry(b, T, k))
                        = Cardinality(EmitsAfterSubscription(b, T, k))

\* a handler subscribed after one emit<T> had delivered its event was
\* invoked by the next emit<T> only
NoReplayWitness ==
    /\ stack = <<>>
    /\ \E c, d \in CallIds : \E b \in buses : \E T \in EventType :
          /\ c < d
          /\ calls[c].bus = b /\ calls[d].bus = b
          /\ calls[c].T = T /\ calls[d].T = T
          /\ InvocationsOf(c) /= <<>>
          /\ Len(Registered(d)) = Len(Registered(c)) + 1
          /\ NoThrower(subscribed[b][T])
          /\ Cardinality(InvocationsOfEntry(b, T, Len(Registered(d)))) = 1

\* C17 (an aborted emit leaves nothing behind): once emit<T>(e) was aborted
\* by a throwing listener, no listener after the thrower is ever invoked for
\* that call; every later emit<T>(e2) on the bus makes its calls after those
\* of the aborted one, starts at the first listener of T and goes on in
\* registration order with e2.
SameTarget(c, d) == calls[c].bus = calls[d].bus /\ calls[c].T = calls[d].T

AbortLeavesNothing ==
    \A c \in CallIds :
        calls[c].outcome = "threw" =>
            /\ \A k \in 1..Len(InvocationsOf(c)) :
                  HandlerThrows(HandlersOf(c)[k]) <=> k = Len(InvocationsOf(c))
            /\ \A d \in CallIds :
                  (c < d /\ SameTarget(c, d)) =>
                      /\ \A i, j \in InvIds :
                            (invocations[i].call = c /\ invocations[j].call = d)
                               => i < j
                      /\ \A k \in 1..Len(InvocationsOf(d)) :
                            /\ IdxOf(d)[k] = k
                            /\ HandlersOf(d)[k] = Registered(d)[k]
                            /\ InvocationsOf(d)[k].seen
                                 = [type |-> calls[d].T, val |-> calls[d].val]
                      /\ calls[d].outcome /= "running"
                            => InvocationsOf(d) /= <<>>

\* the second listener threw and skipped a third one; the next emit of the
\* type, with another payload, called the first listener again
AbortLeavesNothingWitness ==
    \E c, d \in CallIds :
        /\ c < d /\ SameTarget(c, d)
        /\ calls[c].outcome = "threw"
        /\ Len(InvocationsOf(c)) = 2
        /\ Len(Registered(c)) = 3
        /\ calls[d].val /= calls[c].val
        /\ calls[d].outcome = "threw"
        /\ Len(InvocationsOf(d)) = 2

\* C18 (nested emit is depth-first): when a listener called by emit<A>(a)
\* calls emit<B>(b) on the same bus, the listeners of B are invoked with b in
\* registration order, all of them and nothing else between the call of that
\* listener and the call of the next listener of A; the outer emit then goes
\* on at the listener that follows, skipping and repeating none.
InOrderSoFar(c) ==
    \A k \in 1..Len(InvocationsOf(c)) :
        /\ IdxOf(c)[k] = k
        /\ HandlersOf(c)[k] = Registered(c)[k]
        /\ InvocationsOf(c)[k].seen = [type |-> calls[c].T, val |-> calls[c].val]

NestedDepthFirst ==
    \A n \in 1..Len(nesting) :
        LET o == nesting[n].outer
            c == nesting[n].inner
            Caller == {i \in InvIds : /\ invocations[i].call = o
                                      /\ invocations[i].idx = nesting[n].idx}
            After == {i \in InvIds : /\ invocations[i].call = o
                                     /\ invocations[i].idx > nesting[n].idx}
            Inner == {i \in InvIds : invocations[i].call = c}
        IN /\ calls[o].bus = calls[c].bus /\ calls[o].T /= calls[c].T
           /\ Cardinality(Caller) = 1
           /\ \A p \in Caller : \A i \in Inner :
                 p < i /\ \A j \in InvIds : (p < j /\ j < i) => j \in Inner
           /\ InOrderSoFar(c)
           /\ InOrderSoFar(o)
           /\ After /= {} =>
                 /\ calls[c].outcome = "returned"
                 /\ HandlersOf(c) = Registered(c)
                 /\ \A i \in Inner : \A j \in After : i < j
           /\ calls[o].outcome = "returned" => HandlersOf(o) = Registered(o)

\* the first of two listeners of A emitted B, B's listener was called, and
\* then the second listener of A, and the outer emit returned
NestedDepthFirstWitness ==
    \E n \in 1..Len(nesting) :
        LET o == nesting[n].outer
            c == nesting[n].inner
        IN /\ nesting[n].idx = 1
           /\ Len(Registered(o)) = 2
           /\ Len(InvocationsOf(c)) >= 1
           /\ calls[o].outcome = "returned"
           /\ calls[c].outcome = "returned"

\* C19 (bus instances are isolated): the type keys are the same for every
\* bus, but each bus has its own table: the table of a bus holds the handlers
\* subscribed on that bus and no other, an emit on a bus Y invokes only
\* entries subscribed on Y, and a subscribe on a bus X leaves the table of
\* every other bus unchanged.
OwnTable ==
    \A b \in buses : \A T \in EventType :
        LET key == getTypeKey(T)
            vec == IF key \in DOMAIN listeners[b] THEN listeners[b][key]
                   ELSE <<>>
        IN [k \in 1..Len(vec) |-> vec[k].handler] = subscribed[b][T]

InvokedOnOwnBus ==
    \A i \in InvIds :
        LET c == invocations[i].call
        IN /\ invocations[i].idx <= Len(Registered(c))
           /\ invocations[i].handler = Registered(c)[invocations[i].idx]

OtherTablesKept ==
    \A X \in Bus :
        subscribed'[X] /= subscribed[X]
           => \A Y \in Bus \ {X} : listeners'[Y] = listeners[Y]

BusIsolation ==
    /\ [](OwnTable /\ InvokedOnOwnBus)
    /\ [][OtherTablesKept]_vars

\* with a listener of T subscribed on another bus, an emit<T> on a bus has
\* gone through its own single listener of T, a different one
BusIsolationWitness ==
    /\ stack /= <<>>
    /\ Top.idx > Top.last
    /\ Len(InvocationsOf(Top.call)) = 1
    /\ \E X \in buses \ {Top.bus} :
          /\ Len(subscribed[X][Top.T]) = 1
          /\ subscribed[X][Top.T] /= subscribed[Top.bus][Top.T]
          /\ getTypeKey(Top.T) \in DOMAIN listeners[X]

\* C20 (emit terminates): with handlers that come back and call neither emit
\* nor subscribe, every emit call that was entered eventually returns or
\* leaves with the exception of a listener; and at every moment a call has
\* made at most as many handler calls as its type had entries at its start.
Running(c) == c \in CallIds /\ calls[c].outcome = "running"
Ended(c) == c \in CallIds /\ calls[c].outcome \in {"returned", "threw"}

BoundedInvocations ==
    \A c \in CallIds : Len(InvocationsOf(c)) <= Len(Registered(c))

EmitTerminates ==
    /\ \A c \in 1..MaxEmits : Running(c) ~> Ended(c)
    /\ []BoundedInvocations

\* one emit has gone through all of two or more listeners and returned,
\* another one has left with the exception of its last listener
EmitTerminatesWitness ==
    \E c, d \in CallIds :
        /\ calls[c].outcome = "returned"
        /\ Len(Registered(c)) >= 2
        /\ Len(InvocationsOf(c)) = Len(Registered(c))
        /\ calls[d].outcome = "threw"
        /\ Len(InvocationsOf(d)) = Len(Registered(d))
====
